---- MODULE Spec2Model ----
(***************************************************************************)
(* FastMixer::threadLoop (services/audioflinger/FastMixer.cpp): the fast   *)
(* mixer worker thread, the state queue it polls, the controller that      *)
(* publishes FastMixerState snapshots, the cold-idle futex word, the       *)
(* AudioMixer engine, the NBAIO sink and the dump structures.              *)
(*                                                                         *)
(* Pointers are modelled as records [kind, st]: kind "initial" is the      *)
(* static initial state, "preIdle" the worker-local copy, "sq" a state     *)
(* owned by the state queue (st.id is the publication number, so two "sq"  *)
(* pointers are equal exactly when they address the same published state). *)
(***************************************************************************)
EXTENDS Integers, Sequences, FiniteSets, TLC

\* ---------------------------------------------------------------- bounds
MaxPublish == 3        \* snapshots the controller publishes in one run
MaxWrites == 2         \* sink writes attempted per dump structure in one run
MaxRuns == 1           \* underruns, and overruns, counted per dump structure in one run

\* ------------------------------------------------------ program constants
FAST_HOT_IDLE_NS == 1000000
FAST_DEFAULT_NS == 999999999
kMaxFastTracks == 3

\* FastMixerState::Command
INITIAL == 0
HOT_IDLE == 1
COLD_IDLE == 2
IDLE == 3
EXIT == 4
MIX == 8
WRITE == 16
MIX_WRITE == 24

Commands == {INITIAL, HOT_IDLE, COLD_IDLE, EXIT, MIX, WRITE, MIX_WRITE}

\* command & flag, for the flags the worker tests (IDLE, MIX, WRITE)
CommandAnd(c, flag) ==
    IF flag = IDLE THEN c % 4
    ELSE IF flag = MIX THEN ((c \div 8) % 2) * 8
    ELSE ((c \div 16) % 2) * 16

Slots == 0 .. (kMaxFastTracks - 1)

\* ------------------------------------------------------------ environment
NULL == 0
Providers == {1, 2}                 \* buffer providers of the clients
HasVolumeProvider(bp) == bp = 1     \* client 1 has a volume provider, client 2 none
FrameCounts == {0, 192, 48000}
Sinks == {1, 2}
Format_Invalid == 0
\* NBAIO_Sink::format(): sink 1 is a 48 kHz stereo sink, sink 2 one whose
\* format was never negotiated
SinkFormat(s) == IF s = 1 THEN 48000 ELSE Format_Invalid
Format_sampleRate(f) == f
DumpStates == {"dummy", "d1"}

NoTrack == [mBufferProvider |-> NULL, mVolumeProvider |-> FALSE, mGeneration |-> 0]

\* FastMixerState::FastMixerState()
initial ==
    [id |-> 0,
     mCommand |-> INITIAL,
     mFastTracks |-> [i \in Slots |-> NoTrack],
     mTrackMask |-> {},
     mFastTracksGen |-> 0,
     mFrameCount |-> 0,
     mOutputSink |-> NULL,
     mOutputSinkGen |-> 0,
     mColdFutexAddr |-> NULL,
     mColdGen |-> 0,
     mDumpState |-> "null"]

\* What the controller has set up in its working copy before its first push:
\* nothing, or a sink, a frame count and the tracks of `mask`.
Prepared(mask, frameCount, sink) ==
    [initial EXCEPT
        !.mTrackMask = mask,
        !.mFastTracks = [i \in Slots |->
                            IF i \in mask
                            THEN [mBufferProvider |-> 1,
                                  mVolumeProvider |-> HasVolumeProvider(1),
                                  mGeneration |-> 1]
                            ELSE NoTrack],
        !.mFastTracksGen = Cardinality(mask),
        !.mFrameCount = frameCount,
        !.mOutputSink = sink,
        !.mOutputSinkGen = IF sink = NULL THEN 0 ELSE 1]

PreparedStates == {initial, Prepared({0, 1}, 192, 1)}

\* no clock read yet in this cycle
NoClock == <<-2, 0, 0>>

InitialPtr == [kind |-> "initial", st |-> initial]
PreIdlePtr == [kind |-> "preIdle", st |-> initial]
SqPtr(s) == [kind |-> "sq", st |-> s]

VARIABLES
    \* controller and state queue
    ctl,            \* the controller's working copy of the state
    published,      \* number of snapshots pushed so far
    sqNext,         \* StateQueue::mNext: newest pushed snapshot (id 0: none)
    sqCurrent,      \* StateQueue::mCurrent: id of the snapshot poll() returned last
    futexWord,      \* the word at mColdFutexAddr
    released,       \* the controller has released the present cold-idle epoch
    \* build
    LOG_NDEBUG,     \* 1: ALOG_ASSERT and the #if !LOG_NDEBUG lines compiled out
    \* worker locals (threadLoop)
    pc,
    previous, current, preIdle,
    command,
    oldTsValid, sleepNs,
    fastTrackNames, generations,
    outputSink, outputSinkGen,
    mixer, mixBuffer, mixBufferState,
    format, sampleRate, fastTracksGen,
    periodNs, underrunNs, overrunNs,
    dumpState, ignoreNextOverrun, coldGen,
    \* objects the worker owns or writes
    old,            \* COLD_IDLE: the value android_atomic_dec returned
    engine,         \* contents of the AudioMixer instance `mixer` points to
    mixBufferLen,   \* frames the array `mixBuffer` points to was allocated for
    mixBufferData,  \* what that array holds: "none", "uninit", "mixed" or "zero"
    heap,           \* allocations: [next, live, freed, doubleFree]
    dumps,          \* the FastMixerDumpState structures
    \* observation
    calls,          \* engine, sink and futex calls made in the present cycle
    sqBefore,       \* id of the snapshot poll() returned before the one of sqCurrent
    lastClock,      \* the clock read of the cycle that has just ended (NoClock: none)
    futexOps,       \* per mColdGen value: [dec, wait] counts
    applied,        \* the state whose configuration the worker applied last
    pushedInitial,  \* the controller has pushed a state with command INITIAL
    assertsFailed,  \* source lines of ALOG_ASSERTs passed with a false condition
    badCalls        \* source lines of engine calls made with a name that is not allocated

ctlVars == <<ctl, published, sqNext, futexWord, released, pushedInitial>>
timingVars == <<oldTsValid, sleepNs, ignoreNextOverrun, periodNs, underrunNs, overrunNs>>
trackVars == <<fastTrackNames, generations, fastTracksGen>>
sinkVars == <<outputSink, outputSinkGen, format, sampleRate>>
engineVars == <<mixer, mixBuffer, mixBufferState, engine, heap, mixBufferLen, mixBufferData>>
ptrVars == <<previous, current, preIdle>>

vars == <<ctl, published, sqNext, sqCurrent, sqBefore, futexWord, released, LOG_NDEBUG, pc,
          previous, current, preIdle, command, oldTsValid, sleepNs,
          fastTrackNames, generations, outputSink, outputSinkGen,
          mixer, mixBuffer, mixBufferState, format, sampleRate, fastTracksGen,
          periodNs, underrunNs, overrunNs, dumpState, lastClock, ignoreNextOverrun, coldGen,
          old, engine, heap, mixBufferLen, mixBufferData, dumps, calls, futexOps, assertsFailed, badCalls,
          applied, pushedInitial>>

\* *p for a state pointer p
Deref(p) == IF p.kind = "preIdle" THEN preIdle ELSE p.st

\* FastMixerDumpState::FastMixerDumpState()
NewDumpState ==
    [mCommand |-> INITIAL, mWriteSequence |-> 0, mFramesWritten |-> 0,
     mNumTracks |-> 0, mWriteErrors |-> 0, mUnderruns |-> 0, mOverruns |-> 0]

\* an AudioMixer track name that is not allocated
FreeName == [live |-> FALSE, enabled |-> FALSE, provider |-> NULL, mainBuffer |-> NULL,
             slot |-> -1]

\* no AudioMixer instance
NoEngine == [frameCount |-> 0, sampleRate |-> 0, names |-> [n \in Slots |-> FreeName]]

Init ==
    /\ ctl \in PreparedStates
    /\ published = 0
    /\ sqNext = initial
    /\ sqCurrent = 0
    /\ futexWord = 0
    /\ released = FALSE
    /\ LOG_NDEBUG \in {0, 1}
    /\ pc = "top"
    /\ previous = InitialPtr
    /\ current = InitialPtr
    /\ preIdle = initial
    /\ command = INITIAL
    /\ oldTsValid = FALSE
    /\ sleepNs = -1
    /\ fastTrackNames = [i \in Slots |-> -1]
    /\ generations = [i \in Slots |-> 0]
    /\ outputSink = NULL
    /\ outputSinkGen = 0
    /\ mixer = NULL
    /\ mixBuffer = NULL
    /\ mixBufferState = "UNDEFINED"
    /\ format = Format_Invalid
    /\ sampleRate = 0
    /\ fastTracksGen = 0
    /\ periodNs = 0
    /\ underrunNs = 0
    /\ overrunNs = 0
    /\ dumpState = "dummy"
    /\ ignoreNextOverrun = TRUE
    /\ coldGen = 0
    /\ engine = NoEngine
    /\ heap = [next |-> 1, live |-> {}, freed |-> {}, doubleFree |-> FALSE]
    /\ mixBufferLen = 0
    /\ mixBufferData = "none"
    /\ sqBefore = 0
    /\ lastClock = NoClock
    /\ old = 0
    /\ dumps = [d \in DumpStates |-> NewDumpState]
    /\ calls = <<>>
    /\ futexOps = [g \in 0 .. (MaxPublish + 1) |-> [dec |-> 0, wait |-> 0]]
    /\ assertsFailed = {}
    /\ applied = initial
    /\ pushedInitial = FALSE
    /\ badCalls = {}

\* ------------------------------------------------------------- controller
\* The controller (the normal mixer thread) edits its working copy and pushes
\* it.  The worker reads the queue only in poll(), at the top of its loop, so
\* pushes are taken while the worker is there or parked on the futex; several
\* pushes between two polls are snapshots the worker skips.
CanPush == published < MaxPublish /\ pc \in {"top", "blocked"}

Push(c) ==
    /\ CanPush
    /\ pushedInitial' = (pushedInitial \/ c.mCommand = INITIAL)
    /\ ctl' = c
    /\ published' = published + 1
    /\ sqNext' = [c EXCEPT !.id = published + 1]

workerVars == <<sqCurrent, sqBefore, LOG_NDEBUG, pc, previous, current, preIdle, command,
                oldTsValid, sleepNs, fastTrackNames, generations, outputSink,
                outputSinkGen, mixer, mixBuffer, mixBufferState, format, sampleRate,
                fastTracksGen, periodNs, underrunNs, overrunNs, dumpState, lastClock,
                ignoreNextOverrun, coldGen, old, engine, heap, mixBufferLen, mixBufferData, dumps,
                calls, futexOps, assertsFailed, badCalls, applied>>

\* The first push carries a command (CtlCommand or CtlColdIdle); the pushes
\* after it change the command or one part of the configuration.

\* a command other than COLD_IDLE; a cold-idle epoch is left only after its release
CtlCommand(c) ==
    /\ c # COLD_IDLE
    /\ c # ctl.mCommand
    /\ ctl.mCommand = COLD_IDLE => released
    /\ Push([ctl EXCEPT !.mCommand = c])
    /\ UNCHANGED <<futexWord, released>>
    /\ UNCHANGED workerVars

\* enter a new cold-idle epoch: new mColdGen, futex word reset
CtlColdIdle ==
    /\ ctl.mCommand # COLD_IDLE
    /\ Push([ctl EXCEPT !.mCommand = COLD_IDLE, !.mColdFutexAddr = 1,
                        !.mColdGen = @ + 1])
    /\ futexWord' = 0
    /\ released' = FALSE
    /\ UNCHANGED workerVars

\* release the cold-idle epoch: raise the futex word and FUTEX_WAKE
CtlRelease ==
    /\ ctl.mCommand = COLD_IDLE
    /\ ~released
    /\ pc \notin {"exited", "aborted"}
    /\ futexWord' = futexWord + 1
    /\ released' = TRUE
    /\ pc' = IF pc = "blocked" THEN "woken" ELSE pc
    /\ UNCHANGED <<ctl, published, sqNext, pushedInitial>>
    /\ UNCHANGED <<sqCurrent, sqBefore, LOG_NDEBUG, previous, current, preIdle, command,
                   oldTsValid, sleepNs, fastTrackNames, generations, outputSink,
                   outputSinkGen, mixer, mixBuffer, mixBufferState, format, sampleRate,
                   fastTracksGen, periodNs, underrunNs, overrunNs, dumpState, lastClock,
                   ignoreNextOverrun, coldGen, old, engine, heap, mixBufferLen, mixBufferData, dumps,
                   calls, futexOps, assertsFailed, badCalls, applied>>

CtlAddTrack(i, bp) ==
    /\ published > 0
    /\ i \notin ctl.mTrackMask
    /\ Push([ctl EXCEPT !.mTrackMask = @ \cup {i},
                        !.mFastTracks[i] = [mBufferProvider |-> bp,
                                            mVolumeProvider |-> HasVolumeProvider(bp),
                                            mGeneration |-> @.mGeneration + 1],
                        !.mFastTracksGen = @ + 1])
    /\ UNCHANGED <<futexWord, released>>
    /\ UNCHANGED workerVars

CtlRemoveTrack(i) ==
    /\ published > 0
    /\ i \in ctl.mTrackMask
    /\ Push([ctl EXCEPT !.mTrackMask = @ \ {i},
                        !.mFastTracks[i] = [mBufferProvider |-> NULL,
                                            mVolumeProvider |-> FALSE,
                                            mGeneration |-> @.mGeneration + 1],
                        !.mFastTracksGen = @ + 1])
    /\ UNCHANGED <<futexWord, released>>
    /\ UNCHANGED workerVars

\* one push that sets the command INITIAL and the frame count
CtlInitialSetFrameCount(f) ==
    /\ published > 0
    /\ ctl.mCommand \notin {INITIAL, COLD_IDLE}
    /\ f # ctl.mFrameCount
    /\ Push([ctl EXCEPT !.mCommand = INITIAL, !.mFrameCount = f])
    /\ UNCHANGED <<futexWord, released>>
    /\ UNCHANGED workerVars

\* one push that sets the command INITIAL and removes a track
CtlInitialRemoveTrack(i) ==
    /\ published > 0
    /\ ctl.mCommand \notin {INITIAL, COLD_IDLE}
    /\ i \in ctl.mTrackMask
    /\ Push([ctl EXCEPT !.mCommand = INITIAL,
                        !.mTrackMask = @ \ {i},
                        !.mFastTracks[i] = [mBufferProvider |-> NULL,
                                            mVolumeProvider |-> FALSE,
                                            mGeneration |-> @.mGeneration + 1],
                        !.mFastTracksGen = @ + 1])
    /\ UNCHANGED <<futexWord, released>>
    /\ UNCHANGED workerVars

CtlModifyTrack(i, bp) ==
    /\ published > 0
    /\ i \in ctl.mTrackMask
    /\ bp # ctl.mFastTracks[i].mBufferProvider
    /\ Push([ctl EXCEPT !.mFastTracks[i] = [mBufferProvider |-> bp,
                                            mVolumeProvider |-> HasVolumeProvider(bp),
                                            mGeneration |-> @.mGeneration + 1],
                        !.mFastTracksGen = @ + 1])
    /\ UNCHANGED <<futexWord, released>>
    /\ UNCHANGED workerVars

CtlSetFrameCount(f) ==
    /\ published > 0
    /\ f # ctl.mFrameCount
    /\ Push([ctl EXCEPT !.mFrameCount = f])
    /\ UNCHANGED <<futexWord, released>>
    /\ UNCHANGED workerVars

CtlSetSink(s) ==
    /\ published > 0
    /\ s # ctl.mOutputSink
    /\ Push([ctl EXCEPT !.mOutputSink = s, !.mOutputSinkGen = @ + 1])
    /\ UNCHANGED <<futexWord, released>>
    /\ UNCHANGED workerVars

CtlSetDump(d) ==
    /\ published > 0
    /\ d # ctl.mDumpState
    /\ Push([ctl EXCEPT !.mDumpState = d])
    /\ UNCHANGED <<futexWord, released>>
    /\ UNCHANGED workerVars

\* --------------------------------------------------------------- worker
Debug == LOG_NDEBUG = 0

Call(op, slot, arg) == [op |-> op, slot |-> slot, arg |-> arg]

\* operator delete / delete[]
Delete(h, p) ==
    IF p = NULL THEN h
    ELSE IF p \in h.live THEN [h EXCEPT !.live = @ \ {p}, !.freed = @ \cup {p}]
    ELSE [h EXCEPT !.doubleFree = TRUE]

\* operator new / new[]: the pointer returned is h.next
New(h) == [h EXCEPT !.next = @ + 1, !.live = @ \cup {h.next}]

\* StateQueue::poll(): something new since the last poll?
PollFresh == sqNext.id # sqCurrent

\* StateQueue::poll() returns NULL: nothing new since the last poll
PollNone == ~PollFresh

\* poll never moves previous
PinPrevious_Stale(cur, prev, cmd) == prev

\* previous is also updated when leaving idle
PinPrevious_Unpinned(cur, prev, cmd) ==
    IF CommandAnd(Deref(cur).mCommand, IDLE) = 0 /\ CommandAnd(cmd, IDLE) # 0
    THEN PreIdlePtr
    ELSE cur

\* lines 109-117: the value of `previous` after a new state `next` with
\* command cmd was observed
PinPrevious(cur, prev, cmd) ==
    IF CommandAnd(Deref(cur).mCommand, IDLE) = 0
    THEN IF CommandAnd(cmd, IDLE) # 0 THEN PreIdlePtr ELSE cur
    ELSE prev

\* entering idle resets nothing
EntersIdle_Never(cur, cmd) == FALSE

\* lines 110-115: entering idle from a non-idle state
EntersIdle(cur, cmd) ==
    CommandAnd(Deref(cur).mCommand, IDLE) = 0 /\ CommandAnd(cmd, IDLE) # 0

\* the condition asserted is taken to hold whatever current and previous are
AssertAfterPoll_Always(cur, prev) == TRUE

\* line 90
AssertAfterPoll(cur, prev) == cur = InitialPtr /\ prev = InitialPtr

Abort(line) ==
    /\ pc' = "aborted"
    /\ assertsFailed' = assertsFailed \cup {line}

\* lines 73-124: sleep, poll, pin previous, switch dump area
Poll ==
    /\ pc = "top"
    /\ \A d \in DumpStates : dumps[d].mWriteSequence < 2 * MaxWrites
    /\ calls' = <<>>
    /\ UNCHANGED <<ctlVars, LOG_NDEBUG, trackVars, sinkVars, engineVars,
                   periodNs, underrunNs, overrunNs, coldGen, old, futexOps, badCalls,
                   applied>>
    /\ LET a76 == sleepNs > 0 => sleepNs < 1000000000
           a90 == PollNone => AssertAfterPoll(current, previous)
           next == IF PollFresh THEN SqPtr(sqNext) ELSE current
           cmd == Deref(next).mCommand
       IN
       IF Debug /\ ~a76
       THEN /\ Abort(76)
            /\ UNCHANGED <<sqCurrent, sqBefore, ptrVars, command, oldTsValid, sleepNs,
                           ignoreNextOverrun, dumpState, lastClock, dumps>>
       ELSE IF Debug /\ ~a90
       THEN /\ Abort(90)
            /\ sleepNs' = FAST_DEFAULT_NS
            /\ UNCHANGED <<sqCurrent, sqBefore, ptrVars, command, oldTsValid,
                           ignoreNextOverrun, dumpState, lastClock, dumps>>
       ELSE
            /\ pc' = "switch"
            /\ assertsFailed' = assertsFailed
                    \cup (IF a76 THEN {} ELSE {76})
                    \cup (IF a90 THEN {} ELSE {90})
            /\ sleepNs' = FAST_DEFAULT_NS
            /\ sqCurrent' = sqNext.id
            /\ sqBefore' = IF PollFresh THEN sqCurrent ELSE sqBefore
            /\ lastClock' = NoClock
            /\ command' = cmd
            /\ IF next # current
               THEN /\ dumpState' = IF Deref(next).mDumpState # "null"
                                     THEN Deref(next).mDumpState ELSE "dummy"
                    /\ preIdle' = IF EntersIdle(current, cmd) THEN Deref(current) ELSE preIdle
                    /\ oldTsValid' = IF EntersIdle(current, cmd) THEN FALSE ELSE oldTsValid
                    /\ ignoreNextOverrun' =
                            IF EntersIdle(current, cmd) THEN TRUE ELSE ignoreNextOverrun
                    /\ previous' = PinPrevious(current, previous, cmd)
                    /\ current' = next
               ELSE UNCHANGED <<dumpState, ptrVars, oldTsValid, ignoreNextOverrun>>
            /\ dumps' = [dumps EXCEPT ![dumpState'].mCommand = cmd]

\* HOT_IDLE falls through to EXIT
SwitchCase_FallThrough(cmd) ==
    IF cmd = INITIAL THEN "HOT_IDLE"
    ELSE IF cmd = COLD_IDLE THEN "COLD_IDLE"
    ELSE IF cmd \in {HOT_IDLE, EXIT} THEN "EXIT"
    ELSE IF cmd \in {MIX, WRITE, MIX_WRITE} THEN "break"
    ELSE "default"

\* lines 126-156: the case of the switch a command takes
SwitchCase(cmd) ==
    IF cmd \in {INITIAL, HOT_IDLE} THEN "HOT_IDLE"
    ELSE IF cmd = COLD_IDLE THEN "COLD_IDLE"
    ELSE IF cmd = EXIT THEN "EXIT"
    ELSE IF cmd \in {MIX, WRITE, MIX_WRITE} THEN "break"
    ELSE "default"

\* lines 127-130: INITIAL and HOT_IDLE
HotIdle ==
    /\ pc = "switch"
    /\ SwitchCase(command) = "HOT_IDLE"
    /\ sleepNs' = FAST_HOT_IDLE_NS
    /\ pc' = "top"
    /\ UNCHANGED <<ctlVars, sqCurrent, sqBefore, LOG_NDEBUG, ptrVars, command, oldTsValid,
                   ignoreNextOverrun, periodNs, underrunNs, overrunNs, trackVars,
                   sinkVars, engineVars, dumpState, lastClock, coldGen, old, dumps, calls,
                   futexOps, assertsFailed, badCalls, applied>>

\* every COLD_IDLE cycle acts on the futex
ColdIdleIsNew_Always(currentColdGen, workerColdGen) == TRUE

\* line 133: only perform a cold idle command once
ColdIdleIsNew(currentColdGen, workerColdGen) == currentColdGen # workerColdGen

\* the test made on the value after the decrement
MustWait_OnResult(oldValue) == oldValue - 1 <= 0

\* line 137
MustWait(oldValue) == oldValue <= 0

\* lines 131-145, up to the futex call
ColdIdle ==
    /\ pc = "switch"
    /\ SwitchCase(command) = "COLD_IDLE"
    /\ UNCHANGED <<ctl, published, sqNext, released, pushedInitial, sqCurrent, sqBefore,
                   LOG_NDEBUG, ptrVars, command, oldTsValid, ignoreNextOverrun, periodNs,
                   underrunNs, overrunNs, trackVars, sinkVars, engineVars, dumpState, lastClock,
                   dumps, badCalls, applied>>
    /\ IF ColdIdleIsNew(Deref(current).mColdGen, coldGen)
       THEN IF Debug /\ Deref(current).mColdFutexAddr = NULL
            THEN /\ Abort(135)
                 /\ UNCHANGED <<futexWord, old, sleepNs, coldGen, calls, futexOps>>
            ELSE /\ assertsFailed' = assertsFailed
                        \cup (IF Deref(current).mColdFutexAddr = NULL THEN {135} ELSE {})
                 /\ old' = futexWord
                 /\ futexWord' = futexWord - 1
                 /\ futexOps' = [futexOps EXCEPT ![Deref(current).mColdGen].dec = @ + 1]
                 /\ calls' = Append(calls, Call("android_atomic_dec", -1, futexWord))
                 /\ IF MustWait(old')
                    THEN /\ pc' = "futex_wait"
                         /\ UNCHANGED <<sleepNs, coldGen>>
                    ELSE /\ sleepNs' = -1
                         /\ coldGen' = Deref(current).mColdGen
                         /\ pc' = "top"
       ELSE /\ sleepNs' = FAST_HOT_IDLE_NS
            /\ pc' = "top"
            /\ UNCHANGED <<futexWord, old, coldGen, calls, futexOps, assertsFailed>>

coldVars == <<ctlVars, sqCurrent, sqBefore, LOG_NDEBUG, ptrVars, command, oldTsValid,
              ignoreNextOverrun, periodNs, underrunNs, overrunNs, trackVars, sinkVars,
              engineVars, dumpState, lastClock, dumps, old, assertsFailed, badCalls, applied>>

\* FUTEX_WAIT sleeps whatever the word holds
FutexSleeps_Unconditionally(word, expected) == TRUE

\* line 138: FUTEX_WAIT sleeps only while the word still holds the value
\* passed to it
FutexSleeps(word, expected) == word = expected

\* line 138
FutexWait ==
    /\ pc = "futex_wait"
    /\ futexOps' = [futexOps EXCEPT ![Deref(current).mColdGen].wait = @ + 1]
    /\ calls' = Append(calls, Call("futex_wait", -1, old - 1))
    /\ IF FutexSleeps(futexWord, old - 1)
       THEN /\ pc' = "blocked"
            /\ UNCHANGED <<sleepNs, coldGen>>
       ELSE /\ sleepNs' = -1
            /\ coldGen' = Deref(current).mColdGen
            /\ pc' = "top"
    /\ UNCHANGED coldVars

\* lines 140-141, after FUTEX_WAKE
FutexWoken ==
    /\ pc = "woken"
    /\ sleepNs' = -1
    /\ coldGen' = Deref(current).mColdGen
    /\ pc' = "top"
    /\ UNCHANGED <<calls, futexOps>>
    /\ UNCHANGED coldVars

\* the mix buffer is not released on EXIT
ExitReleases_LeakBuffer(h, mixerPtr, mixBufferPtr) == Delete(h, mixerPtr)

\* lines 147-148
ExitReleases(h, mixerPtr, mixBufferPtr) == Delete(Delete(h, mixerPtr), mixBufferPtr)

\* lines 146-149
Exit ==
    /\ pc = "switch"
    /\ SwitchCase(command) = "EXIT"
    /\ heap' = ExitReleases(heap, mixer, mixBuffer)
    /\ calls' = calls \o <<Call("delete mixer", -1, mixer), Call("delete[] mixBuffer", -1, mixBuffer)>>
    /\ pc' = "exited"
    /\ UNCHANGED <<ctlVars, sqCurrent, sqBefore, LOG_NDEBUG, ptrVars, command, timingVars,
                   trackVars, sinkVars, mixer, mixBuffer, mixBufferState, engine,
                   mixBufferLen, mixBufferData, dumpState, lastClock, coldGen, old, dumps, futexOps,
                   assertsFailed, badCalls, applied>>

\* ------------------------------------------------------------ track diff
\* __builtin_ctz of a non-empty mask
Ctz(S) == CHOOSE i \in S : \A j \in S : i <= j

\* the engine is created for one track less than the table has slots
MixerMaxTracks_OneLess == kMaxFastTracks - 1

\* line 191: the number of tracks the engine is created for
MixerMaxTracks == kMaxFastTracks

\* AudioMixer::getTrackName(): the lowest free name, or -1
GetTrackName(names) ==
    IF \E n \in 0 .. (MixerMaxTracks - 1) : ~names[n].live
    THEN Ctz({n \in 0 .. (MixerMaxTracks - 1) : ~names[n].live})
    ELSE -1

IsLiveName(names, name) == name \in Slots /\ names[name].live

\* The loops below work on a record w of the worker's locals:
\*   names (of the engine), ftn (fastTrackNames), gens (generations),
\*   log (calls), failed (assertsFailed), bad (badCalls), abort.
\* env is [hasMixer, debug, mixBuffer, tracks (current->mFastTracks)].
Failed(w, line, debug) ==
    [w EXCEPT !.failed = @ \cup {line}, !.abort = debug]

\* lines 223-234: one removed track
RemoveTrack(w, i, env) ==
    LET name == w.ftn[i]
        w1 == IF ~env.hasMixer THEN w
              ELSE IF name < 0 /\ env.debug THEN Failed(w, 228, TRUE)
              ELSE [w EXCEPT
                      !.failed = IF name < 0 THEN @ \cup {228} ELSE @,
                      !.bad = IF IsLiveName(w.names, name) THEN @ ELSE @ \cup {229},
                      !.names = IF IsLiveName(w.names, name)
                                THEN [@ EXCEPT ![name] = FreeName] ELSE @,
                      !.log = Append(@, Call("deleteTrackName", i, name))]
    IN IF w1.abort THEN w1
       ELSE [w1 EXCEPT !.ftn[i] = IF env.debug THEN -1 ELSE @,
                       !.gens[i] = env.tracks[i].mGeneration]

\* lines 240-255: one added track
AddTrack(w, i, env) ==
    LET bp == env.tracks[i].mBufferProvider
        a244 == bp # NULL /\ w.ftn[i] = -1
        name == GetTrackName(w.names)
        w0 == IF a244 THEN w ELSE Failed(w, 244, env.debug)
        w1 == IF w0.abort \/ ~env.hasMixer THEN w0
              ELSE IF name < 0
              THEN IF env.debug THEN Failed(w0, 247, TRUE)
                   ELSE [w0 EXCEPT
                           !.failed = @ \cup {247},
                           !.bad = @ \cup {249},
                           !.ftn[i] = name,
                           !.log = @ \o <<Call("getTrackName", i, name),
                                          Call("setBufferProvider", i, name),
                                          Call("setParameter MAIN_BUFFER", i, name),
                                          Call("enable", i, name)>>]
              ELSE [w0 EXCEPT
                      !.ftn[i] = name,
                      !.names[name] = [live |-> TRUE, enabled |-> TRUE, provider |-> bp,
                                       mainBuffer |-> env.mixBuffer, slot |-> i],
                      !.log = @ \o <<Call("getTrackName", i, name),
                                     Call("setBufferProvider", i, name),
                                     Call("setParameter MAIN_BUFFER", i, name),
                                     Call("enable", i, name)>>]
    IN IF w1.abort THEN w1
       ELSE [w1 EXCEPT !.gens[i] = env.tracks[i].mGeneration]

\* lines 262-281: one track present before and after
ModifyTrack(w, i, env) ==
    IF env.tracks[i].mGeneration = w.gens[i] THEN w
    ELSE
    LET bp == env.tracks[i].mBufferProvider
        name == w.ftn[i]
        w0 == IF bp # NULL THEN w ELSE Failed(w, 267, env.debug)
        volume == IF env.tracks[i].mVolumeProvider THEN <<>>
                  ELSE <<Call("setParameter VOLUME0", i, name),
                         Call("setParameter VOLUME1", i, name)>>
        w1 == IF w0.abort \/ ~env.hasMixer THEN w0
              ELSE IF name < 0 /\ env.debug THEN Failed(w0, 270, TRUE)
              ELSE [w0 EXCEPT
                      !.failed = IF name < 0 THEN @ \cup {270} ELSE @,
                      !.bad = IF IsLiveName(w0.names, name) THEN @ ELSE @ \cup {271},
                      !.names = IF IsLiveName(w0.names, name)
                                THEN [@ EXCEPT ![name].provider = bp] ELSE @,
                      !.log = @ \o <<Call("setBufferProvider", i, name)>> \o volume]
    IN IF w1.abort THEN w1
       ELSE [w1 EXCEPT !.gens[i] = env.tracks[i].mGeneration]

RECURSIVE RemovedLoop(_, _, _)
RemovedLoop(w, removedTracks, env) ==
    IF removedTracks = {} \/ w.abort THEN w
    ELSE LET i == Ctz(removedTracks)
         IN RemovedLoop(RemoveTrack(w, i, env), removedTracks \ {i}, env)

RECURSIVE AddedLoop(_, _, _)
AddedLoop(w, addedTracks, env) ==
    IF addedTracks = {} \/ w.abort THEN w
    ELSE LET i == Ctz(addedTracks)
         IN AddedLoop(AddTrack(w, i, env), addedTracks \ {i}, env)

RECURSIVE ModifiedLoop(_, _, _)
ModifiedLoop(w, modifiedTracks, env) ==
    IF modifiedTracks = {} \/ w.abort THEN w
    ELSE LET i == Ctz(modifiedTracks)
         IN ModifiedLoop(ModifyTrack(w, i, env), modifiedTracks \ {i}, env)

\* removed tracks are never processed
TrackDiff_NoRemove(w, previousTrackMask, currentTrackMask, env) ==
    LET w2 == AddedLoop(w, currentTrackMask \ previousTrackMask, env)
    IN ModifiedLoop(w2, currentTrackMask \cap previousTrackMask, env)

\* added tracks are processed before removed tracks
TrackDiff_AddFirst(w, previousTrackMask, currentTrackMask, env) ==
    LET w1 == AddedLoop(w, currentTrackMask \ previousTrackMask, env)
        w2 == RemovedLoop(w1, previousTrackMask \ currentTrackMask, env)
    IN ModifiedLoop(w2, currentTrackMask \cap previousTrackMask, env)

\* lines 220-282: removed, then added, then modified
TrackDiff(w, previousTrackMask, currentTrackMask, env) ==
    LET w1 == RemovedLoop(w, previousTrackMask \ currentTrackMask, env)
        w2 == AddedLoop(w1, currentTrackMask \ previousTrackMask, env)
    IN ModifiedLoop(w2, currentTrackMask \cap previousTrackMask, env)

\* ---------------------------------------------------------- state change
\* a change of the frame count alone does not rebuild the engine
NeedsReconfigure_FormatOnly(newFormat, previousFormat, frameCount, previousFrameCount) ==
    newFormat # previousFormat

\* the engine is rebuilt on every state change
NeedsReconfigure_Always(newFormat, previousFormat, frameCount, previousFrameCount) == TRUE

\* line 181
NeedsReconfigure(newFormat, previousFormat, frameCount, previousFrameCount) ==
    newFormat # previousFormat \/ frameCount # previousFrameCount

\* line 187
CanCreateMixer(frameCount, rate) == frameCount > 0 /\ rate > 0

\* (a * b) / c in long long arithmetic; the product is split so that no
\* intermediate value leaves the range of the checker's integers
MulDiv(a, b, c) == a * (b \div c) + (a * (b % c)) \div c

\* lines 193-195
PeriodNs(frameCount, rate) == MulDiv(frameCount, 1000000000, rate)
UnderrunNs(frameCount, rate) == MulDiv(frameCount, 1750000000, rate)
OverrunNs(frameCount, rate) == MulDiv(frameCount, 250000000, rate)

\* lines 183-186
ReconfigureReleases(h, mixerPtr, mixBufferPtr) == Delete(Delete(h, mixerPtr), mixBufferPtr)

\* line 216
TracksChanged(currentGen, workerGen) == currentGen # workerGen

\* lines 158-293: there is a non-idle state; did the state change?
StateChange ==
    /\ pc = "switch"
    /\ SwitchCase(command) = "break"
    /\ UNCHANGED <<ctlVars, sqCurrent, sqBefore, LOG_NDEBUG, command, oldTsValid, sleepNs,
                   ignoreNextOverrun, dumpState, lastClock, coldGen, old, futexOps,
                   preIdle, current>>
    /\ IF current = previous
       THEN /\ pc' = "mix"
            /\ applied' = Deref(current)
            /\ UNCHANGED <<previous, trackVars, sinkVars, engineVars, periodNs,
                           underrunNs, overrunNs, dumps, calls, assertsFailed, badCalls>>
       ELSE
       LET cur == Deref(current)
           prev == Deref(previous)
           frameCount == cur.mFrameCount
           previousFormat == format
           sinkChanged == cur.mOutputSinkGen # outputSinkGen
           sink1 == IF sinkChanged THEN cur.mOutputSink ELSE outputSink
           format1 == IF ~sinkChanged THEN format
                      ELSE IF sink1 = NULL THEN Format_Invalid ELSE SinkFormat(sink1)
           rate1 == IF ~sinkChanged THEN sampleRate
                    ELSE IF sink1 = NULL THEN 0 ELSE Format_sampleRate(format1)
           reconf == NeedsReconfigure(format1, previousFormat, frameCount, prev.mFrameCount)
           create == reconf /\ CanCreateMixer(frameCount, rate1)
           heap1 == IF reconf THEN ReconfigureReleases(heap, mixer, mixBuffer) ELSE heap
           mixer1 == IF ~reconf THEN mixer ELSE IF create THEN heap1.next ELSE NULL
           heap2 == IF create THEN New(heap1) ELSE heap1
           mixBuffer1 == IF ~reconf THEN mixBuffer ELSE IF create THEN heap2.next ELSE NULL
           heap3 == IF create THEN New(heap2) ELSE heap2
           engine1 == IF ~reconf THEN engine
                      ELSE IF create
                      THEN [frameCount |-> frameCount, sampleRate |-> rate1,
                            names |-> [n \in Slots |-> FreeName]]
                      ELSE NoEngine
           ftn1 == IF reconf /\ Debug THEN [i \in Slots |-> -1] ELSE fastTrackNames
           previousTrackMask == IF reconf THEN {} ELSE prev.mTrackMask
           gen1 == IF reconf THEN cur.mFastTracksGen - 1 ELSE fastTracksGen
           diff == TracksChanged(cur.mFastTracksGen, gen1)
           a217 == mixBuffer1 # NULL
           log1 == IF ~reconf THEN calls
                   ELSE calls \o <<Call("delete mixer", -1, mixer),
                                   Call("delete[] mixBuffer", -1, mixBuffer)>>
                              \o (IF create
                                  THEN <<Call("new AudioMixer", -1, mixer1),
                                         Call("new short[]", -1, mixBuffer1)>>
                                  ELSE <<>>)
           w0 == [names |-> engine1.names, ftn |-> ftn1, gens |-> generations,
                  log |-> log1,
                  failed |-> IF diff /\ ~a217 THEN assertsFailed \cup {217}
                             ELSE assertsFailed,
                  bad |-> badCalls,
                  abort |-> diff /\ ~a217 /\ Debug]
           env == [hasMixer |-> mixer1 # NULL, debug |-> Debug,
                   mixBuffer |-> mixBuffer1, tracks |-> cur.mFastTracks]
           w == IF diff /\ ~w0.abort
                THEN TrackDiff(w0, previousTrackMask, cur.mTrackMask, env)
                ELSE w0
       IN  /\ outputSink' = sink1
           /\ outputSinkGen' = IF sinkChanged THEN cur.mOutputSinkGen ELSE outputSinkGen
           /\ format' = format1
           /\ sampleRate' = rate1
           /\ heap' = heap3
           /\ mixer' = mixer1
           /\ mixBuffer' = mixBuffer1
           /\ mixBufferLen' = IF ~reconf THEN mixBufferLen
                               ELSE IF create THEN frameCount ELSE 0
           /\ mixBufferData' = IF ~reconf THEN mixBufferData
                                ELSE IF create THEN "uninit" ELSE "none"
           /\ mixBufferState' = IF reconf THEN "UNDEFINED" ELSE mixBufferState
           /\ periodNs' = IF ~reconf THEN periodNs
                           ELSE IF create THEN PeriodNs(frameCount, rate1) ELSE 0
           /\ underrunNs' = IF ~reconf THEN underrunNs
                             ELSE IF create THEN UnderrunNs(frameCount, rate1) ELSE 0
           /\ overrunNs' = IF ~reconf THEN overrunNs
                            ELSE IF create THEN OverrunNs(frameCount, rate1) ELSE 0
           /\ engine' = [engine1 EXCEPT !.names = w.names]
           /\ fastTrackNames' = w.ftn
           /\ generations' = w.gens
           /\ calls' = w.log
           /\ assertsFailed' = w.failed
           /\ badCalls' = w.bad
           /\ fastTracksGen' = IF diff /\ ~w.abort THEN cur.mFastTracksGen ELSE gen1
           /\ dumps' = IF diff /\ ~w.abort
                        THEN [dumps EXCEPT ![dumpState].mNumTracks = Cardinality(cur.mTrackMask)]
                        ELSE dumps
           /\ previous' = IF w.abort THEN previous ELSE current
           /\ pc' = IF w.abort THEN "aborted" ELSE "mix"
           /\ applied' = IF w.abort THEN applied ELSE cur

\* ------------------------------------------------------------------- mix
\* lines 300-313: one active track of the volume loop
VolumeTrack(w, i, env) ==
    LET name == w.ftn[i]
    IN IF name < 0 /\ env.debug THEN Failed(w, 305, TRUE)
       ELSE [w EXCEPT
               !.failed = IF name < 0 THEN @ \cup {305} ELSE @,
               !.bad = IF env.tracks[i].mVolumeProvider /\ ~IsLiveName(w.names, name)
                       THEN @ \cup {308} ELSE @,
               !.log = IF env.tracks[i].mVolumeProvider
                       THEN @ \o <<Call("setParameter VOLUME0", i, name),
                                   Call("setParameter VOLUME1", i, name)>>
                       ELSE @]

RECURSIVE VolumeLoop(_, _, _)
VolumeLoop(w, volumeTracks, env) ==
    IF volumeTracks = {} \/ w.abort THEN w
    ELSE LET i == Ctz(volumeTracks)
         IN VolumeLoop(VolumeTrack(w, i, env), volumeTracks \ {i}, env)

\* a buffer mixed in an earlier cycle is still taken as mixed
MixSkipped_StaysMixed(state) == state

\* lines 317-318: no mix in this cycle
MixSkipped(state) == IF state = "MIXED" THEN "UNDEFINED" ELSE state

\* line 296
DoesMix(cmd, mixerPtr) == CommandAnd(cmd, MIX) # 0 /\ mixerPtr # NULL

\* lines 295-319: do work using current state
Mix ==
    /\ pc = "mix"
    /\ UNCHANGED <<ctlVars, sqCurrent, sqBefore, LOG_NDEBUG, ptrVars, command, timingVars,
                   trackVars, sinkVars, mixer, mixBuffer, engine, heap, mixBufferLen,
                   dumpState, lastClock, coldGen, old, dumps, futexOps, applied>>
    /\ IF DoesMix(command, mixer)
       THEN LET cur == Deref(current)
                a297 == mixBuffer # NULL
                w0 == [names |-> engine.names, ftn |-> fastTrackNames,
                       gens |-> generations, log |-> calls,
                       failed |-> IF a297 THEN assertsFailed ELSE assertsFailed \cup {297},
                       bad |-> IF mixer \in heap.live THEN badCalls ELSE badCalls \cup {315},
                       abort |-> ~a297 /\ Debug]
                env == [hasMixer |-> TRUE, debug |-> Debug, mixBuffer |-> mixBuffer,
                        tracks |-> cur.mFastTracks]
                w == VolumeLoop(w0, cur.mTrackMask, env)
            IN /\ assertsFailed' = w.failed
               /\ badCalls' = w.bad
               /\ IF w.abort
                  THEN /\ pc' = "aborted"
                       /\ calls' = w.log
                       /\ UNCHANGED <<mixBufferState, mixBufferData>>
                  ELSE /\ pc' = "write"
                       /\ calls' = Append(w.log, Call("process", -1, mixer))
                       /\ mixBufferData' = "mixed"
                       /\ mixBufferState' = "MIXED"
       ELSE /\ pc' = "write"
            /\ mixBufferState' = MixSkipped(mixBufferState)
            /\ UNCHANGED <<calls, assertsFailed, badCalls, mixBufferData>>

\* ----------------------------------------------------------------- write
\* line 320
DoesWrite(cmd, sink, buffer) == CommandAnd(cmd, WRITE) # 0 /\ sink # NULL /\ buffer # NULL

\* NBAIO_Sink::write(): all frames taken, or an error
WriteResults(frameCount) == {-1, frameCount}

\* lines 320-327: up to the call of outputSink->write()
WriteBegin ==
    /\ pc = "write"
    /\ UNCHANGED <<ctlVars, sqCurrent, sqBefore, LOG_NDEBUG, ptrVars, command, timingVars,
                   trackVars, sinkVars, mixer, mixBuffer, engine, heap, mixBufferLen,
                   dumpState, lastClock, coldGen, old, futexOps, assertsFailed, applied>>
    /\ IF DoesWrite(command, outputSink, mixBuffer)
       THEN /\ mixBufferState' = IF mixBufferState = "UNDEFINED" THEN "ZEROED"
                                  ELSE mixBufferState
            /\ mixBufferData' = IF mixBufferState = "UNDEFINED" THEN "zero"
                                 ELSE mixBufferData
            /\ calls' = (IF mixBufferState = "UNDEFINED"
                          THEN Append(calls, Call("memset", -1, Deref(current).mFrameCount))
                          ELSE calls)
                         \o <<Call("write", -1, Deref(current).mFrameCount)>>
            /\ badCalls' = IF mixBuffer \in heap.live THEN badCalls ELSE badCalls \cup {328}
            /\ dumps' = [dumps EXCEPT ![dumpState].mWriteSequence = @ + 1]
            /\ pc' = "writing"
       ELSE /\ pc' = "timing"
            /\ UNCHANGED <<mixBufferState, mixBufferData, calls, badCalls, dumps>>

\* the second increment is made only after a successful write
WriteSequenceAfter_OnSuccess(seq, framesWritten) ==
    IF framesWritten >= 0 THEN seq + 1 ELSE seq

\* line 329
WriteSequenceAfter(seq, framesWritten) == seq + 1

\* lines 328-334: outputSink->write() returns
WriteEnd(framesWritten) ==
    /\ pc = "writing"
    /\ dumps' = [dumps EXCEPT
                    ![dumpState].mWriteSequence = WriteSequenceAfter(@, framesWritten),
                    ![dumpState].mFramesWritten =
                        IF framesWritten >= 0 THEN @ + framesWritten ELSE @,
                    ![dumpState].mWriteErrors =
                        IF framesWritten >= 0 THEN @ ELSE @ + 1]
    /\ pc' = "timing"
    /\ UNCHANGED <<ctlVars, sqCurrent, sqBefore, LOG_NDEBUG, ptrVars, command, timingVars,
                   trackVars, sinkVars, engineVars, dumpState, lastClock, coldGen, old,
                   calls, futexOps, assertsFailed, badCalls, applied>>

\* ---------------------------------------------------------------- timing
\* clock_gettime(): <<rc, sec, nsec>>, sec and nsec the time since oldTs as
\* lines 345-350 compute it
ClockReads ==
    {<<0, 0, 500000>>, <<0, 0, 4000000>>, <<0, 0, 8000000>>, <<0, 1, 0>>,
     <<-1, 0, 0>>}

\* line 351
IsUnderrun(sec, nsec, underrun) == sec > 0 \/ nsec > underrun

\* line 358
IsOverrun(nsec, overrun) == nsec < overrun

\* every cycle with a successful clock read is classified
Measured_FirstToo(rc, valid) == rc = 0

\* lines 343-344: there is an interval to classify
Measured(rc, valid) == rc = 0 /\ valid

\* lines 341-394
Timing(rc, sec, nsec) ==
    /\ pc = "timing"
    /\ (Measured(rc, oldTsValid) /\ IsUnderrun(sec, nsec, underrunNs))
            => dumps[dumpState].mUnderruns < MaxRuns
    /\ (Measured(rc, oldTsValid) /\ ~IsUnderrun(sec, nsec, underrunNs)
            /\ IsOverrun(nsec, overrunNs) /\ ~ignoreNextOverrun)
            => dumps[dumpState].mOverruns < MaxRuns
    /\ pc' = "top"
    /\ lastClock' = <<rc, sec, nsec>>
    /\ UNCHANGED <<ctlVars, sqCurrent, sqBefore, LOG_NDEBUG, ptrVars, command, periodNs,
                   underrunNs, overrunNs, trackVars, sinkVars, engineVars, dumpState,
                   coldGen, old, calls, futexOps, assertsFailed, badCalls, applied>>
    /\ IF Measured(rc, oldTsValid)
       THEN IF IsUnderrun(sec, nsec, underrunNs)
            THEN /\ dumps' = [dumps EXCEPT ![dumpState].mUnderruns = @ + 1]
                 /\ sleepNs' = -1
                 /\ ignoreNextOverrun' = TRUE
                 /\ UNCHANGED oldTsValid
            ELSE IF IsOverrun(nsec, overrunNs)
            THEN /\ IF ignoreNextOverrun
                    THEN /\ ignoreNextOverrun' = FALSE
                         /\ UNCHANGED dumps
                    ELSE /\ dumps' = [dumps EXCEPT ![dumpState].mOverruns = @ + 1]
                         /\ UNCHANGED ignoreNextOverrun
                 /\ sleepNs' = periodNs - overrunNs
                 /\ UNCHANGED oldTsValid
            ELSE /\ sleepNs' = -1
                 /\ ignoreNextOverrun' = FALSE
                 /\ UNCHANGED <<oldTsValid, dumps>>
       ELSE IF rc = 0
       THEN /\ oldTsValid' = TRUE
            /\ sleepNs' = periodNs
            /\ ignoreNextOverrun' = TRUE
            /\ UNCHANGED dumps
       ELSE /\ oldTsValid' = FALSE
            /\ sleepNs' = periodNs
            /\ UNCHANGED <<ignoreNextOverrun, dumps>>

\* --------------------------------------------------------- specification
\* INITIAL is the command of the static initial state; the controller of Spec
\* never pushes it, the controller of SpecInitial may.
PublishedCommands == {HOT_IDLE, EXIT, MIX, WRITE, MIX_WRITE}

Next ==
    \/ \E c \in PublishedCommands : CtlCommand(c)
    \/ CtlColdIdle
    \/ CtlRelease
    \/ \E i \in Slots, bp \in Providers : CtlAddTrack(i, bp)
    \/ \E i \in Slots : CtlRemoveTrack(i)
    \/ \E i \in Slots, bp \in Providers : CtlModifyTrack(i, bp)
    \/ \E f \in FrameCounts : CtlSetFrameCount(f)
    \/ \E s \in Sinks \cup {NULL} : CtlSetSink(s)
    \/ \E d \in {"null", "d1"} : CtlSetDump(d)
    \/ Poll
    \/ HotIdle
    \/ ColdIdle
    \/ FutexWait
    \/ FutexWoken
    \/ Exit
    \/ StateChange
    \/ Mix
    \/ WriteBegin
    \/ \E r \in WriteResults(Deref(current).mFrameCount) : WriteEnd(r)
    \/ \E t \in ClockReads : Timing(t[1], t[2], t[3])

Spec == Init /\ [][Next]_vars

NextInitial ==
    \/ Next
    \/ CtlCommand(INITIAL)
    \/ \E i \in Slots : CtlInitialRemoveTrack(i)
    \/ \E f \in FrameCounts : CtlInitialSetFrameCount(f)

SpecInitial == Init /\ [][NextInitial]_vars

\* The worker is a thread of its own (run at real-time priority): a step of
\* the cold-idle code it can take it eventually takes, and a FUTEX_WAIT that
\* was woken eventually returns.  Nothing is assumed of the controller.
SpecFair == Spec /\ WF_vars(ColdIdle) /\ WF_vars(FutexWait) /\ WF_vars(FutexWoken)

\* ================================================================ claims
\* a working cycle is about to diff current against previous (line 160)
DiffStart == pc = "switch" /\ SwitchCase(command) = "break" /\ current # previous

\* a poll that returned a new state while current was an idle state
IdleTransition ==
    /\ pc = "top"
    /\ pc' = "switch"
    /\ current' # current
    /\ CommandAnd(Deref(current).mCommand, IDLE) # 0

C2_ColdIdleOnce ==
    /\ \A g \in DOMAIN futexOps :
            futexOps[g].dec <= 1 /\ futexOps[g].wait <= futexOps[g].dec
    /\ coldGen > 0 => futexOps[coldGen].dec = 1
    /\ pc \in {"futex_wait", "blocked", "woken"} => futexOps[Deref(current).mColdGen].dec = 1
    /\ (command = COLD_IDLE /\ pc = "top" /\ sleepNs = FAST_HOT_IDLE_NS) => calls = <<>>

\* C2 witness: a further COLD_IDLE cycle in an epoch in which the worker has
\* decremented and waited
C2_Witness ==
    /\ command = COLD_IDLE
    /\ pc = "top"
    /\ sleepNs = FAST_HOT_IDLE_NS
    /\ coldGen > 0
    /\ futexOps[coldGen] = [dec |-> 1, wait |-> 1]

\* ------------------------------------------------------------------ C3
\* the worker has just decremented the futex word
JustDecremented == Len(calls) > 0 /\ calls[Len(calls)].op = "android_atomic_dec"

\* C3 as stated: after the decrement the worker goes on to the futex wait
\* exactly when the value of the word after the decrement is <= 0.
C3_WaitsOnResult == JustDecremented => (pc = "futex_wait" <=> old - 1 <= 0)

\* C3 as amended: after the decrement the worker goes on to the futex wait
\* exactly when the value the word held before the decrement is <= 0, that is
\* when the value after it is < 0.
C3_WaitsOnOldValue ==
    JustDecremented =>
        /\ calls[Len(calls)].arg = old
        /\ pc = "futex_wait" <=> old <= 0
        /\ pc = "futex_wait" <=> old - 1 < 0

\* C3 witness: the word held 1, the decrement made it 0 and the worker did
\* not wait
C3_Witness == JustDecremented /\ old = 1 /\ pc = "top" /\ sleepNs = -1

\* ------------------------------------------------------------------ C4
\* C4: no engine or mix buffer is released twice or used after its release,
\* the allocations alive are those mixer and mixBuffer point to, and none is
\* alive once EXIT was serviced.
C4_Lifetime ==
    /\ ~heap.doubleFree
    /\ heap.live \cap heap.freed = {}
    /\ heap.live \cup heap.freed = 1 .. (heap.next - 1)
    /\ badCalls \cap {315, 328} = {}
    /\ pc = "exited" => heap.live = {}
    /\ pc # "exited" => heap.live = {mixer, mixBuffer} \ {NULL}

\* C4 witness: EXIT serviced after a reconfiguration released one engine and
\* buffer and built another
C4_Witness == pc = "exited" /\ heap.freed = 1 .. 4

\* ------------------------------------------------------------------ C5
\* C5: the worker returns only from the EXIT case, it takes that case as the
\* first step after the poll that returned EXIT, with no call but the two
\* deletes in that cycle, and it takes no step afterwards.
C5_ExitOnly ==
    /\ [][(pc' = "exited" /\ pc # "exited") => (pc = "switch" /\ command = EXIT)]_vars
    /\ [][(pc = "switch" /\ command = EXIT) => pc' \in {"switch", "exited"}]_vars
    /\ [][pc = "exited" => pc' = "exited" /\ sqCurrent' = sqCurrent /\ calls' = calls]_vars
    /\ [](pc = "exited" =>
            /\ command = EXIT
            /\ Len(calls) = 2
            /\ calls[1].op = "delete mixer"
            /\ calls[2].op = "delete[] mixBuffer")

\* C5 witness: EXIT serviced after a failed sink write and a failed clock read
C5_Witness ==
    /\ pc = "exited"
    /\ \E d \in DumpStates : dumps[d].mWriteErrors > 0
    /\ ~oldTsValid

\* ------------------------------------------------------------------ C6
\* the engine's live names are those of the slots of current's track mask, one
\* enabled name per slot, bound to the slot's buffer provider and the mix buffer
HandlesMatchMask ==
    LET cur == Deref(current)
        live == {n \in Slots : engine.names[n].live}
    IN /\ {engine.names[n].slot : n \in live} = cur.mTrackMask
       /\ Cardinality(live) = Cardinality(cur.mTrackMask)
       /\ \A i \in cur.mTrackMask :
            /\ fastTrackNames[i] \in live
            /\ engine.names[fastTrackNames[i]].slot = i
            /\ engine.names[fastTrackNames[i]].enabled
            /\ engine.names[fastTrackNames[i]].provider = cur.mFastTracks[i].mBufferProvider
            /\ engine.names[fastTrackNames[i]].mainBuffer = mixBuffer
       /\ \A i, j \in cur.mTrackMask : i # j => fastTrackNames[i] # fastTrackNames[j]

\* the state-change code of a working cycle has run and an engine exists
AfterDiff == pc = "mix" /\ mixer # NULL

DiffStep ==
    /\ pc = "switch"
    /\ pc' = "mix"
    /\ current # previous
    /\ mixer' # NULL
    /\ \/ Deref(current).mFastTracksGen # fastTracksGen
       \/ \E k \in DOMAIN calls' : calls'[k].op = "new AudioMixer"

\* previousTrackMask of that diff: empty when the engine was re-created
DiffPreviousMask ==
    IF \E k \in DOMAIN calls' : calls'[k].op = "new AudioMixer"
    THEN {}
    ELSE Deref(previous).mTrackMask

\* C7: in one diff the deleteTrackName calls are those of the removed slots,
\* the getTrackName calls those of the added slots and the re-bindings those
\* of the slots in both masks whose generation changed; every release comes
\* before every allocation and every allocation before every re-binding; a
\* slot in both masks with an unchanged generation gets no engine call.
C7_DiffOrder ==
    [][DiffStep =>
        LET cur == Deref(current)
            removed == DiffPreviousMask \ cur.mTrackMask
            added == cur.mTrackMask \ DiffPreviousMask
            both == cur.mTrackMask \cap DiffPreviousMask
            modified == {i \in both : cur.mFastTracks[i].mGeneration # generations[i]}
            rel == {k \in DOMAIN calls' : calls'[k].op = "deleteTrackName"}
            alloc == {k \in DOMAIN calls' : calls'[k].op = "getTrackName"}
            rebind == {k \in DOMAIN calls' :
                         calls'[k].op = "setBufferProvider" /\ calls'[k].slot \in both}
        IN /\ calls = <<>>
           /\ {calls'[k].slot : k \in rel} = removed
           /\ Cardinality(rel) = Cardinality(removed)
           /\ {calls'[k].slot : k \in alloc} = added
           /\ Cardinality(alloc) = Cardinality(added)
           /\ {calls'[k].slot : k \in rebind} = modified
           /\ Cardinality(rebind) = Cardinality(modified)
           /\ \A k \in rel, m \in alloc \cup rebind : k < m
           /\ \A m \in alloc, n \in rebind : m < n
           /\ \A k \in DOMAIN calls' : calls'[k].slot \notin both \ modified
    ]_vars

\* C7 witness: mask {0, 1} -> {1, 2}: slot 0 released, then slot 2 allocated,
\* slot 1 untouched
C7_Witness ==
    /\ pc = "mix"
    /\ Deref(current).mTrackMask = {1, 2}
    /\ Len(calls) = 5
    /\ calls[1].op = "deleteTrackName" /\ calls[1].slot = 0
    /\ calls[2].op = "getTrackName" /\ calls[2].slot = 2
    /\ \A k \in DOMAIN calls : calls[k].slot # 1

\* ------------------------------------------------------------------ C8
\* current carries the configuration the worker applied last
SameAsApplied ==
    LET cur == Deref(current)
    IN /\ cur.mFrameCount = applied.mFrameCount
       /\ cur.mOutputSinkGen = applied.mOutputSinkGen
       /\ cur.mOutputSink = applied.mOutputSink
       /\ cur.mFastTracksGen = applied.mFastTracksGen

\* C8: the state-change code of a working cycle whose state has the frame
\* count, sink generation and track-table generation applied last creates and
\* destroys no engine or buffer, allocates and releases no name and re-binds
\* no buffer provider.
C8_NoChangeIdempotent ==
    [][(pc = "switch" /\ SwitchCase(command) = "break" /\ SameAsApplied /\ pc' # pc) =>
        /\ pc' = "mix"
        /\ calls' = calls
        /\ engine' = engine
        /\ heap' = heap
        /\ mixer' = mixer
        /\ mixBuffer' = mixBuffer
        /\ fastTrackNames' = fastTrackNames
    ]_vars

\* C8 witness: the first working cycle after an idle period, on a new
\* MIX_WRITE state with the configuration of the one applied before the idle
\* period (which made the only write so far), has passed the state-change
\* code without a call
C8_Witness ==
    /\ pc = "mix"
    /\ command = MIX_WRITE
    /\ mixer # NULL
    /\ outputSink # NULL
    /\ calls = <<>>
    /\ preIdle.id > 0
    /\ preIdle.mCommand = MIX_WRITE
    /\ Deref(current).id > preIdle.id
    /\ Deref(current).mTrackMask # {}
    /\ Deref(current).mFastTracksGen = preIdle.mFastTracksGen
    /\ dumps[dumpState].mWriteSequence = 2

\* ------------------------------------------------------------------ C9
\* a state with frame count 0, no sink, or a sink of sample rate 0
ZeroConfig(st) ==
    \/ st.mFrameCount = 0
    \/ st.mOutputSink = NULL
    \/ Format_sampleRate(SinkFormat(st.mOutputSink)) = 0

\* the worker is in a working cycle, past the state-change code, on such a state
WorkingOnZeroConfig ==
    /\ pc \in {"mix", "write", "writing", "timing"}
    /\ ZeroConfig(Deref(current))

\* no engine, no mix buffer, no process() and no write() on such a state
C9_NoEngineNoCalls ==
    WorkingOnZeroConfig =>
        /\ mixer = NULL
        /\ mixBuffer = NULL
        /\ \A k \in DOMAIN calls : calls[k].op \notin {"process", "write"}

\* C9: while current is a working state with frame count 0, no sink or sample
\* rate 0, there is no engine and no mix buffer, process() and write() are not
\* called, and the worker does not abort in its state-change code.
C9_ZeroConfig ==
    /\ C9_NoEngineNoCalls
    /\ ~(/\ pc = "aborted"
         /\ SwitchCase(command) = "break"
         /\ ZeroConfig(Deref(current))
         /\ 217 \in assertsFailed)

\* ----------------------------------------------------------------- C10
\* C10: mWriteSequence of a dump structure is odd exactly while the worker is
\* inside outputSink->write() with that structure, and even otherwise; it
\* grows by one when the call starts and by one when it returns, with a
\* result or an error, and at no other step.
C10_WriteSequence ==
    /\ [](\A d \in DumpStates :
            (dumps[d].mWriteSequence % 2 = 1) <=> (pc = "writing" /\ dumpState = d))
    /\ [][\A d \in DumpStates :
            dumps'[d].mWriteSequence =
                dumps[d].mWriteSequence +
                    (IF /\ d = dumpState
                        /\ \/ pc = "write" /\ pc' = "writing"
                           \/ pc = "writing" /\ pc' = "timing"
                     THEN 1 ELSE 0)]_vars

\* C10 witness: two writes through the dump structure d1, one failed and one
\* successful, have raised its mWriteSequence by 4
C10_Witness ==
    /\ pc = "timing"
    /\ dumps["d1"].mWriteSequence = 4
    /\ dumps["d1"].mWriteErrors = 1
    /\ dumps["d1"].mFramesWritten > 0

\* ---------------------------------------------------------------------------
\* the operation op was called in the present cycle
Called(op) == \E k \in 1 .. Len(calls) : calls[k].op = op

\* C11: at every call of the sink's write() the mix buffer is defined:
\* mixBufferState is MIXED and the buffer holds the output of process() if
\* process() ran earlier in the same cycle, and it is ZEROED and the buffer
\* holds zeroes otherwise; the sink is never handed the array as operator
\* new[] left it nor the output of an earlier cycle's mix under a WRITE
\* without MIX.
C11_WriteDefined ==
    pc = "writing" =>
        /\ mixBuffer # NULL
        /\ Called("process") => mixBufferState = "MIXED" /\ mixBufferData = "mixed"
        /\ ~Called("process") =>
                /\ mixBufferState = "ZEROED"
                /\ mixBufferData = "zero"

\* a write without a mix in the cycle that re-created the buffer
C11_Witness ==
    /\ pc = "writing"
    /\ Called("new short[]")
    /\ Called("memset")
    /\ ~Called("process")
    /\ command = WRITE

\* a WRITE without MIX about to write a buffer an earlier cycle mixed into
C11_WitnessAfterMix ==
    /\ pc = "write"
    /\ DoesWrite(command, outputSink, mixBuffer)
    /\ ~Called("process")
    /\ mixBufferData = "mixed"
    /\ mixBufferState = "UNDEFINED"
\* ---------------------------------------------------------------------------
\* the step that ends a working cycle: lines 341-394
TimingStep == pc = "timing" /\ pc' = "top"

\* the cycle that has just ended computed an interval against a valid timestamp
WasMeasured == lastClock'[1] = 0 /\ oldTsValid

RECURSIVE SumOver(_, _)
SumOver(f, S) == IF S = {} THEN 0
                 ELSE LET d == CHOOSE x \in S : TRUE IN f[d] + SumOver(f, S \ {d})

\* underruns and overruns recorded so far, over all dump structures
Underruns == SumOver([d \in DumpStates |-> dumps[d].mUnderruns], DumpStates)
Overruns == SumOver([d \in DumpStates |-> dumps[d].mOverruns], DumpStates)

\* C12: timing accounting.  Every measured cycle is counted once: it adds one
\* to underruns, or one to overruns, or to neither (a nominal cycle), never to
\* both, and only in the dump structure in use; a cycle that is not measured
\* (the first after a timing reset, or one whose clock read failed) and every
\* step outside the timing code leave all counters as they are.  Hence
\* underruns + overruns + nominal_cycles = total_measured_cycles at every
\* point.
C12_Accounting ==
    [][ /\ (TimingStep /\ WasMeasured) =>
               /\ Underruns' + Overruns' \in {Underruns + Overruns, Underruns + Overruns + 1}
               /\ Underruns' >= Underruns /\ Overruns' >= Overruns
               /\ \A d \in DumpStates \ {dumpState} :
                      /\ dumps'[d].mUnderruns = dumps[d].mUnderruns
                      /\ dumps'[d].mOverruns = dumps[d].mOverruns
        /\ ~(TimingStep /\ WasMeasured) =>
               \A d \in DumpStates :
                   /\ dumps'[d].mUnderruns = dumps[d].mUnderruns
                   /\ dumps'[d].mOverruns = dumps[d].mOverruns
      ]_vars

\* the first cycle after a timing reset has ended with counters already
\* recorded, and a later cycle has been measured
C12_Witness ==
    /\ pc = "top"
    /\ lastClock # NoClock
    /\ lastClock[1] = 0
    /\ oldTsValid
    /\ Underruns = 1
    /\ Overruns = 1
\* ---------------------------------------------------------------------------
\* the interval of the measured cycle that has just ended, in nanoseconds
Interval == lastClock'[2] * 1000000000 + lastClock'[3]

CountersUnchanged ==
    \A d \in DumpStates : /\ dumps'[d].mUnderruns = dumps[d].mUnderruns
                           /\ dumps'[d].mOverruns = dumps[d].mOverruns

\* C13: timing policy of a measured cycle with interval D.  D > underrunNs:
\* one underrun more, next sleep -1, ignoreNextOverrun set.  D < overrunNs:
\* next sleep periodNs - overrunNs, and one overrun more unless
\* ignoreNextOverrun was set, in which case the flag is cleared and nothing
\* is counted.  Otherwise: next sleep -1 and nothing is counted.
C13_Policy ==
    [][ (TimingStep /\ WasMeasured) =>
            IF Interval > underrunNs
            THEN /\ dumps'[dumpState].mUnderruns = dumps[dumpState].mUnderruns + 1
                 /\ Overruns' = Overruns
                 /\ sleepNs' = -1
                 /\ ignoreNextOverrun'
            ELSE IF Interval < overrunNs
            THEN /\ sleepNs' = periodNs - overrunNs
                 /\ Underruns' = Underruns
                 /\ IF ignoreNextOverrun
                    THEN ~ignoreNextOverrun' /\ CountersUnchanged
                    ELSE /\ dumps'[dumpState].mOverruns = dumps[dumpState].mOverruns + 1
                         /\ ~ignoreNextOverrun'
            ELSE /\ sleepNs' = -1
                 /\ CountersUnchanged
      ]_vars

\* the same policy for the intervals below one second
C13_PolicySubSecond ==
    [][ (TimingStep /\ WasMeasured /\ lastClock'[2] = 0) =>
            IF Interval > underrunNs
            THEN /\ dumps'[dumpState].mUnderruns = dumps[dumpState].mUnderruns + 1
                 /\ Overruns' = Overruns
                 /\ sleepNs' = -1
                 /\ ignoreNextOverrun'
            ELSE IF Interval < overrunNs
            THEN /\ sleepNs' = periodNs - overrunNs
                 /\ Underruns' = Underruns
                 /\ IF ignoreNextOverrun
                    THEN ~ignoreNextOverrun' /\ CountersUnchanged
                    ELSE /\ dumps'[dumpState].mOverruns = dumps[dumpState].mOverruns + 1
                         /\ ~ignoreNextOverrun'
            ELSE /\ sleepNs' = -1
                 /\ CountersUnchanged
      ]_vars

\* an interval of one second, below underrunNs, has been counted as an underrun
C13_SecondBelowUnderrun ==
    /\ pc = "top"
    /\ lastClock = <<0, 1, 0>>
    /\ underrunNs > 1000000000
    /\ dumps[dumpState].mUnderruns = 1
    /\ sleepNs = -1
\* ---------------------------------------------------------------------------
\* a poll that observes an idle command while current is a non-idle state
\* (lines 109-110)
IdleEntryStep ==
    /\ pc = "top" /\ pc' = "switch"
    /\ current' # current
    /\ CommandAnd(Deref(current).mCommand, IDLE) = 0
    /\ CommandAnd(command', IDLE) # 0

\* a working cycle that finds no valid previous timestamp ends
FirstCycleStep == TimingStep /\ ~oldTsValid

\* the clock read of the cycle that ends failed
ClockFailed == lastClock'[1] # 0

\* C14: timing reset.  A non-idle -> idle transition invalidates the previous
\* timestamp and sets ignoreNextOverrun.  The first working cycle after a
\* reset counts nothing and selects sleep = periodNs; it sets
\* ignoreNextOverrun if its own clock read succeeds and leaves the flag as it
\* was if that read fails.  A failed clock read selects sleep = periodNs,
\* invalidates the previous timestamp and counts nothing.
C14_TimingReset ==
    [][ /\ IdleEntryStep => ~oldTsValid' /\ ignoreNextOverrun'
        /\ FirstCycleStep =>
               /\ CountersUnchanged
               /\ sleepNs' = periodNs
               /\ ~ClockFailed => oldTsValid' /\ ignoreNextOverrun'
               /\ ClockFailed => ignoreNextOverrun' = ignoreNextOverrun
        /\ (TimingStep /\ ClockFailed) =>
               /\ CountersUnchanged
               /\ sleepNs' = periodNs
               /\ ~oldTsValid'
      ]_vars

\* C14 as stated: the first working cycle after a reset always leaves
\* ignoreNextOverrun set
C14_FirstCycleSetsIgnore ==
    [][ /\ IdleEntryStep => ~oldTsValid' /\ ignoreNextOverrun'
        /\ FirstCycleStep =>
               /\ CountersUnchanged
               /\ sleepNs' = periodNs
               /\ ignoreNextOverrun'
        /\ (TimingStep /\ ClockFailed) =>
               /\ CountersUnchanged
               /\ sleepNs' = periodNs
               /\ ~oldTsValid'
      ]_vars

\* a first cycle after a reset has ended, the reset having come after an
\* underrun was counted
C14_Witness ==
    /\ pc = "top"
    /\ lastClock # NoClock /\ lastClock[1] = 0
    /\ periodNs > 0 /\ sleepNs = periodNs
    /\ oldTsValid /\ ignoreNextOverrun
    /\ Underruns = 1

\* two clock reads in a row failed after a nominal cycle
C14_WitnessFailedTwice ==
    /\ pc = "top"
    /\ lastClock # NoClock /\ lastClock[1] # 0
    /\ ~oldTsValid /\ ~ignoreNextOverrun
    /\ sleepNs = periodNs
\* ---------------------------------------------------------------------------
\* C15: the sleep encoding is always legal.  At the top of every cycle sleepNs
\* is -1, 0 or a positive value below 1000000000, and the assertion of line
\* 76 is never passed with a false condition.
C15_SleepLegal ==
    /\ pc = "top" => sleepNs \in {-1, 0} \/ (sleepNs > 0 /\ sleepNs < 1000000000)
    /\ 76 \notin assertsFailed

\* the sleep selected is below one second whenever the period is
C15_SleepBelowPeriod ==
    pc = "top" =>
        \/ sleepNs \in {-1, 0, FAST_HOT_IDLE_NS}
        \/ sleepNs > 0 /\ sleepNs <= periodNs

\* the first cycle of a one-second period has selected sleep = periodNs
C15_OneSecondPeriod ==
    /\ pc = "top"
    /\ periodNs = 1000000000
    /\ sleepNs = periodNs
\* ---------------------------------------------------------------------------
\* the worker is in the cold-idle acknowledgement of a new epoch: about to
\* decrement the futex word, between the decrement and the futex wait, in the
\* wait, or woken
InColdIdleAck ==
    \/ /\ pc = "switch"
       /\ SwitchCase(command) = "COLD_IDLE"
       /\ ColdIdleIsNew(Deref(current).mColdGen, coldGen)
    \/ pc \in {"futex_wait", "blocked", "woken"}

\* the acknowledgement is over: the worker is back at the top of its loop
\* with the epoch recorded, about to poll the state queue
ColdIdleAcked == pc = "top" /\ coldGen = Deref(current).mColdGen

\* C16: no lost wakeup.  Once the controller has released the cold-idle
\* epoch, a worker that is anywhere in the acknowledgement of that epoch
\* (before the decrement, between the decrement and the wait, or in the wait)
\* eventually leaves it and is back at the top of its loop.
C16_NoLostWakeup == (released /\ InColdIdleAck) ~> ColdIdleAcked

\* the release came between the worker's decrement and its futex wait
C16_Witness ==
    /\ pc = "futex_wait"
    /\ released
    /\ futexWord # old - 1

\* the release came before the decrement
C16_WitnessBefore ==
    /\ pc = "switch"
    /\ SwitchCase(command) = "COLD_IDLE"
    /\ ColdIdleIsNew(Deref(current).mColdGen, coldGen)
    /\ released

\* the release came after the wait began
C16_WitnessAfter == pc = "woken" /\ released
\* ---------------------------------------------------------------------------
\* p addresses the built-in initial state, the worker's copy preIdle, or one
\* of the two snapshots poll() returned most recently
BoundedReference(p) ==
    \/ p = InitialPtr
    \/ p = PreIdlePtr
    \/ /\ p.kind = "sq"
       /\ p.st.id > 0
       /\ p.st.id \in {sqCurrent, sqBefore}

\* C17: bounded snapshot references.  At every point current and previous
\* each address the built-in initial state, the worker-local copy preIdle, or
\* one of the two snapshots most recently returned by poll(); current is the
\* newest of them once a snapshot has been returned.
C17_BoundedReferences ==
    /\ BoundedReference(current)
    /\ BoundedReference(previous)
    /\ sqCurrent > 0 => current.kind = "sq" /\ current.st.id = sqCurrent

\* the worker holds the two snapshots returned last, after an older one
C17_Witness ==
    /\ pc = "switch"
    /\ current.kind = "sq" /\ current.st.id = 3
    /\ previous.kind = "sq" /\ previous.st.id = 2
    /\ sqBefore = 2

\* across an idle period of two snapshots the worker holds its own copy
C17_WitnessIdle ==
    /\ pc = "switch"
    /\ current.kind = "sq" /\ current.st.id = 3
    /\ previous = PreIdlePtr
    /\ sqBefore = 2
    /\ preIdle.id = 1
\* ---------------------------------------------------------------------------
\* the engine's names in use
LiveNames == {n \in Slots : engine.names[n].live}

\* C18: no handle exhaustion.  Every getTrackName() of a track diff returns a
\* name (the assertion name >= 0 of line 247 is never passed with a false
\* condition and no call is made with the name -1), and the engine never
\* holds more than kMaxFastTracks names.
C18_NoExhaustion ==
    /\ 247 \notin assertsFailed
    /\ 249 \notin badCalls
    /\ \A k \in 1 .. Len(calls) :
           calls[k].op = "getTrackName" => calls[k].arg \in 0 .. (kMaxFastTracks - 1)
    /\ Cardinality(LiveNames) <= kMaxFastTracks
    /\ mixer # NULL => Cardinality(LiveNames) <= Cardinality(applied.mTrackMask)

\* a diff has filled the table: the last free name was handed out
C18_Witness ==
    /\ pc = "mix"
    /\ Cardinality(LiveNames) = kMaxFastTracks
    /\ \E k \in 1 .. Len(calls) :
           calls[k].op = "getTrackName" /\ calls[k].arg = kMaxFastTracks - 1

\* one diff removed a track and added another: the added one got the name
\* the removed one gave back
C18_WitnessSwap ==
    /\ pc = "mix"
    /\ \E j, k \in 1 .. Len(calls) :
           /\ j < k
           /\ calls[j].op = "deleteTrackName"
           /\ calls[k].op = "getTrackName"
           /\ calls[k].arg = calls[j].arg
           /\ calls[k].slot # calls[j].slot
\* ---------------------------------------------------------------------------
\* C19: the assertion at the entry of the track diff holds in every reachable
\* state: whenever a working cycle finds current->mFastTracksGen different
\* from fastTracksGen (also when line 209 forced the difference), mixBuffer is
\* not NULL; the assertion of line 217 is never passed with a false
\* condition, in a build with assertions or without.
C19_MixBufferAtDiff == 217 \notin assertsFailed

\* a build without assertions has run the track diff without a mix buffer
C19_DiffWithoutBuffer ==
    /\ pc = "mix"
    /\ 217 \in assertsFailed
    /\ mixBuffer = NULL
    /\ mixer = NULL
    /\ fastTracksGen = Deref(current).mFastTracksGen

\* a build with assertions has aborted at the entry of the track diff
C19_Aborted ==
    /\ pc = "aborted"
    /\ assertsFailed = {217}
    /\ Deref(current).mFrameCount > 0
    /\ Deref(current).mOutputSink = NULL
\* ---------------------------------------------------------------------------
\* poll() returns NULL in this step (lines 87-92)
PollNoneStep == pc = "top" /\ pc' # "top" /\ PollNone

C20_WitnessAfterSnapshot ==
    /\ pc = "switch"
    /\ ~Debug
    /\ 90 \in assertsFailed
    /\ current.kind = "sq"
\* ---------------------------------------------------------------------------
\* the state-change code has run for current in this cycle
AfterStateChange == pc \in {"mix", "write", "writing", "timing"}

\* engine and mix buffer are both absent, or both present and made for the
\* frame count of st
SizedFor(st) ==
    \/ /\ mixer = NULL /\ mixBuffer = NULL
       /\ mixBufferLen = 0
    \/ /\ mixer # NULL /\ mixBuffer # NULL
       /\ engine.frameCount = st.mFrameCount
       /\ mixBufferLen = st.mFrameCount

\* the frames the memset and the write() of this cycle were given
FramesPassed == {calls[k].arg : k \in {j \in 1 .. Len(calls) : calls[j].op \in {"memset", "write"}}}

C21_Overflow ==
    /\ pc = "writing"
    /\ mixBufferLen = 192
    /\ 48000 \in FramesPassed
====
